---- MODULE Spec2Model ----
(***************************************************************************)
(* Oversharing privacy warnings: the span reconciliation of app.py, the    *)
(* fragment relocation and the predictors of predictors.py, and the        *)
(* pattern/lexicon scanner of detector.py.                                 *)
(*                                                                         *)
(* A text is a sequence of Unicode code points (a Python str); offsets are *)
(* 0-based as in the source, so text[i] of the source is text[i + 1] here. *)
(***************************************************************************)
EXTENDS Integers, Sequences, FiniteSets, TLC

VARIABLES
    rtext,      \* render_block: the text whose spans are rendered
    rpred,      \* render_block: pred["spans"]
    rspans,     \* render_block: the local spans
    rout,       \* the result of _non_overlapping
    rout2,      \* the result of _non_overlapping applied to rout
    rpc,        \* "input", "filtered", "reconciled", "twice"
    atext,      \* _attach_offsets: text
    acursor,    \* _attach_offsets: cursor
    aresults,   \* _attach_offsets: results
    ahint,      \* the hint of spans_text the loop handled last
    aprev,      \* cursor and results before that hint
    acount,     \* the number of hints handled
    atrail,     \* per hint handled: the hint, the cursor it met, the search that found it
    apc,        \* "loop", "returned"
    dtext,      \* Detector.analyze: text
    dnlp,       \* whether the spaCy pipeline is loaded, and its doc.ents
    dresult,    \* Detector.analyze: result, before it is finalized
    dout,       \* the dict Detector.analyze returns
    dpc,        \* "call", "scanned", "returned"
    backend,    \* app.py: the backend of the sidebar
    ptext,      \* app.py: the post
    plasttext,  \* st.session_state.last_text
    pnlp,       \* det: whether spaCy is loaded, and its doc.ents for the posts
    pcache,     \* _CALL_CACHE
    pkey,       \* _generate_openai: key
    pattempt,   \* _generate_openai: attempt
    pvia,       \* how _generate_openai returned: "cache", "ok", "failed"
    pout,       \* what _generate_openai returned
    presult,    \* st.session_state.last_pred
    pview,      \* the spans render_block highlights
    ppc         \* "idle", "attempt", "assemble", "raised", "done", "shown"

rvars == <<rtext, rpred, rspans, rout, rout2, rpc>>

avars == <<atext, acursor, aresults, ahint, aprev, acount, atrail, apc>>

dvars == <<dtext, dnlp, dresult, dout, dpc>>

pvars ==
    <<backend, ptext, plasttext, pnlp, pcache, pkey, pattempt, pvia, pout,
      presult, pview, ppc>>

vars == <<rvars, avars, dvars, pvars>>

(***************************************************************************)
(* Bounds of the model.                                                    *)
(***************************************************************************)
MaxTextLen == 3
MaxSpans == 3
MaxFragLen == 2
MaxHints == 2
MaxPieces == 3

(***************************************************************************)
(* Each part of the program at rest, for the specifications of the others. *)
(***************************************************************************)
\* The relocation at rest.
RelocateIdle ==
    /\ atext = <<>>
    /\ acursor = 0
    /\ aresults = <<>>
    /\ ahint = [text |-> <<>>, label |-> ""]
    /\ aprev = [cursor |-> 0, results |-> <<>>]
    /\ acount = 0
    /\ atrail = <<>>
    /\ apc = "returned"

\* The reconciliation at rest.
ReconcileIdle ==
    /\ rtext = <<>>
    /\ rpred = <<>>
    /\ rspans = <<>>
    /\ rout = <<>>
    /\ rout2 = <<>>
    /\ rpc = "twice"

\* The detector at rest.
DetectorIdle ==
    /\ dtext = <<>>
    /\ dnlp = [enabled |-> FALSE, ents |-> <<>>]
    /\ dresult = [labels |-> {}, spans |-> <<>>]
    /\ dout = [labels |-> <<>>, spans |-> <<>>, explanations |-> <<>>]
    /\ dpc = "returned"

\* The application at rest.
PredictIdle ==
    /\ backend = "Hybrid (Rules + GPT)"
    /\ ptext = <<>>
    /\ plasttext = <<>>
    /\ pnlp = [enabled |-> FALSE, ents |-> <<>>]
    /\ pcache = <<>>
    /\ pkey = [mode |-> "", text |-> <<>>, hints |-> <<>>]
    /\ pattempt = 0
    /\ pvia = "none"
    /\ pout = [labels |-> <<>>, spans_text |-> <<>>, explanations |-> <<>>]
    /\ presult = [labels |-> <<>>, spans |-> <<>>, explanations |-> <<>>]
    /\ pview = <<>>
    /\ ppc = "idle"

(***************************************************************************)
(* Python built-ins on sequences.                                          *)
(***************************************************************************)
Min(a, b) == IF a <= b THEN a ELSE b

Max(a, b) == IF a >= b THEN a ELSE b

\* s[a:b] for 0 <= a, 0 <= b: both ends are clamped to len(s).
Slice(s, a, b) ==
    LET lo == Min(a, Len(s))
        hi == Min(b, Len(s))
    IN  IF lo >= hi THEN <<>> ELSE SubSeq(s, lo + 1, hi)

\* s.find(sub, start) for 0 <= start: the lowest index at or after start
\* where sub occurs in s, or -1.
Find(s, sub, start) ==
    LET hits == {i \in start..(Len(s) - Len(sub)) :
                    SubSeq(s, i + 1, i + Len(sub)) = sub}
    IN  IF hits = {} THEN -1 ELSE CHOOSE i \in hits : \A j \in hits : i <= j

\* str.lower() of one character, for the characters of the model: ASCII,
\* U+0130 (capital I with dot above, whose lowercase is the two characters
\* U+0069 U+0307), U+0131 and U+017F (their own lowercase), U+212A (the
\* Kelvin sign, whose lowercase is k), U+0307 and U+2019.
LowerChar(c) ==
    IF c >= 65 /\ c <= 90 THEN <<c + 32>>
    ELSE IF c = 304 THEN <<105, 775>>
    ELSE IF c = 8490 THEN <<107>>
    ELSE <<c>>

\* str.lower()
RECURSIVE Lower(_)
Lower(s) == IF s = <<>> THEN <<>> ELSE LowerChar(Head(s)) \o Lower(Tail(s))

SeqsUpTo(S, n) == UNION {[1..k -> S] : k \in 0..n}

(***************************************************************************)
(* app.py: span reconciliation.                                            *)
(***************************************************************************)
\* The labels a span of the reconciliation inputs carries.
RLabels == {"Contact&IDs", "Location&Time"}

\* Ties on start broken by ascending length.
SortKeyLessShortFirst(a, b) ==
    \/ a.start < b.start
    \/ /\ a.start = b.start
       /\ (a.end - a.start) < (b.end - b.start)

\* key=lambda s: (s["start"], -(s["end"]-s["start"])), compared as tuples.
SortKeyLess(a, b) ==
    \/ a.start < b.start
    \/ /\ a.start = b.start
       /\ -(a.end - a.start) < -(b.end - b.start)

\* One insertion of sorted(): x goes after every element whose key is not
\* greater than its own (sorted() is stable).
RECURSIVE InsertSorted(_, _)
InsertSorted(sorted, x) ==
    IF sorted = <<>> THEN <<x>>
    ELSE IF SortKeyLess(x, Head(sorted)) THEN <<x>> \o sorted
    ELSE <<Head(sorted)>> \o InsertSorted(Tail(sorted), x)

RECURSIVE SortedSpans(_)
SortedSpans(spans) ==
    IF spans = <<>> THEN <<>>
    ELSE InsertSorted(SortedSpans(SubSeq(spans, 1, Len(spans) - 1)),
                      spans[Len(spans)])

\* A span is accepted when it ends at or after the last accepted end.
AcceptSpanByEnd(s, last_end) == s.end >= last_end

\* if s["start"] >= last_end
AcceptSpan(s, last_end) == s.start >= last_end

\* The loop with last_end assigned for every span, accepted or not.
RECURSIVE GreedyAcceptDedented(_, _, _)
GreedyAcceptDedented(spans, out, last_end) ==
    IF spans = <<>> THEN out
    ELSE LET s == Head(spans)
         IN  IF s.start >= last_end
             THEN GreedyAcceptDedented(Tail(spans), Append(out, s), s.end)
             ELSE GreedyAcceptDedented(Tail(spans), out, s.end)

\* The loop of _non_overlapping over the sorted spans.
RECURSIVE GreedyAccept(_, _, _)
GreedyAccept(spans, out, last_end) ==
    IF spans = <<>> THEN out
    ELSE LET s == Head(spans)
         IN  IF AcceptSpan(s, last_end)
             THEN GreedyAccept(Tail(spans), Append(out, s), s.end)
             ELSE GreedyAccept(Tail(spans), out, last_end)

non_overlapping(spans) == GreedyAccept(SortedSpans(spans), <<>>, -1)

\* 0 <= s["start"] < s["end"] <= len(text)
ValidBounds(s, text) == 0 <= s.start /\ s.start < s.end /\ s.end <= Len(text)

\* spans = [s for s in spans if 0 <= s["start"] < s["end"] <= len(text)]
RECURSIVE FilterBounds(_, _)
FilterBounds(spans, text) ==
    IF spans = <<>> THEN <<>>
    ELSE IF ValidBounds(Head(spans), text)
         THEN <<Head(spans)>> \o FilterBounds(Tail(spans), text)
         ELSE FilterBounds(Tail(spans), text)

\* The spans render_block highlights.
RenderSpans(text, spans) == non_overlapping(FilterBounds(spans, text))

(***************************************************************************)
(* predictors.py: the span offset mapper.                                  *)
(***************************************************************************)
\* Lines 178-184: the four searches, in the order the code tries them.
Locate(text, frag, cursor) ==
    LET exactFrom == Find(text, frag, cursor)
        lowerFrom == IF exactFrom = -1
                     THEN Find(Lower(text), Lower(frag), cursor)
                     ELSE exactFrom
        exactAny  == Find(text, frag, 0)
    IN  IF lowerFrom # -1 THEN lowerFrom
        ELSE IF exactAny # -1 THEN exactAny
        ELSE Find(Lower(text), Lower(frag), 0)

\* Which of the searches of lines 178-184 finds frag: one that starts at
\* the cursor (lines 178-180), one over the whole text (lines 182-184), or
\* none; "empty" for the fragment line 176 skips.
LocatedBy(text, frag, cursor) ==
    IF frag = <<>> THEN "empty"
    ELSE IF Find(text, frag, cursor) # -1
            \/ Find(Lower(text), Lower(frag), cursor) # -1
    THEN "cursor"
    ELSE IF Locate(text, frag, cursor) # -1 THEN "anywhere"
    ELSE "none"

GroundedSpan(text, start, frag, label) ==
    [start |-> start, end |-> start + Len(frag),
     text |-> Slice(text, start, start + Len(frag)), label |-> label]

\* One iteration of the loop of _attach_offsets over the hint s, from the
\* loop state st = [cursor, results].
AttachHint(text, st, s) ==
    IF s.text = <<>> THEN st
    ELSE LET start == Locate(text, s.text, st.cursor)
         IN  IF start = -1 THEN st
             ELSE [cursor  |-> start + Len(s.text),
                   results |-> Append(st.results,
                                      GroundedSpan(text, start, s.text, s.label))]

RECURSIVE AttachLoop(_, _, _)
AttachLoop(text, st, spans_text) ==
    IF spans_text = <<>> THEN st.results
    ELSE AttachLoop(text, AttachHint(text, st, Head(spans_text)), Tail(spans_text))

attach_offsets(text, spans_text) ==
    AttachLoop(text, [cursor |-> 0, results |-> <<>>], spans_text)

(***************************************************************************)
(* detector.py: the regular expressions.  A pattern is a sequence of       *)
(* items, matched left to right with backtracking as re does: a greedy     *)
(* repetition tries one more round before it tries the rest, an            *)
(* alternation tries its branches in order.                                *)
(***************************************************************************)
Digit == 48..57

Upper == 65..90

LowerCase == 97..122

\* \s over the characters of the model.
Space == (9..13) \cup (28..32)

\* \w over the characters of the model: U+0130, U+0131, U+017F and U+212A
\* are letters, U+0307 and U+2019 are not word characters.
IsWordChar(c) ==
    c \in Digit \cup Upper \cup LowerCase \cup {95, 304, 305, 383, 8490}

\* One character of the set S.
One(S) == [k |-> "one", s |-> S, ci |-> FALSE]

\* One character of the set S in either case (re.I).
OneI(S) == [k |-> "one", s |-> S, ci |-> TRUE]

\* One character outside the set S.
NotOne(S) == [k |-> "not", s |-> S]

\* The characters of w.
Lit(w) == [k |-> "lit", s |-> w, ci |-> FALSE]

\* The characters of w in either case (re.I).
LitI(w) == [k |-> "lit", s |-> w, ci |-> TRUE]

\* Between lo and hi rounds of the pattern p, greedy; hi = -1: no limit.
Rep(p, lo, hi) == [k |-> "rep", p |-> p, lo |-> lo, hi |-> hi]

\* The first of the patterns ps that lets the rest match.
Alt(ps) == [k |-> "alt", ps |-> ps]

\* \b
WordBoundary == [k |-> "b"]

\* The character that stands for c when re.I compares characters: the
\* lower case of an ASCII letter; i for U+0130 and U+0131, s for U+017F, k
\* for U+212A, which re.I matches with those letters.
FoldCase(c) ==
    IF c \in Upper THEN c + 32
    ELSE IF c \in {304, 305} THEN 105
    ELSE IF c = 383 THEN 115
    ELSE IF c = 8490 THEN 107
    ELSE c

\* The character c is in the class S of ASCII characters; under re.I, in
\* either case.
InClass(it, c) ==
    IF it.ci
    THEN LET f == FoldCase(c)
         IN  f \in it.s \/ (f \in LowerCase /\ f - 32 \in it.s)
    ELSE c \in it.s

\* \b at offset pos of text.
AtWordBoundary(text, pos) ==
    LET before == pos > 0 /\ IsWordChar(text[pos])
        after  == pos < Len(text) /\ IsWordChar(text[pos + 1])
    IN  before # after

\* The literal item it at offset pos of text.
LitAt(it, text, pos) ==
    /\ pos + Len(it.s) <= Len(text)
    /\ \A i \in DOMAIN it.s :
          IF it.ci THEN FoldCase(text[pos + i]) = FoldCase(it.s[i])
          ELSE text[pos + i] = it.s[i]

RECURSIVE MatchFrom(_, _, _)
RECURSIVE FirstAlt(_, _, _, _)

\* The end of the match of pat starting at offset pos of text that the
\* backtracking search finds first, or -1.
MatchFrom(pat, text, pos) ==
    IF pat = <<>> THEN pos
    ELSE LET it   == Head(pat)
             rest == Tail(pat)
         IN  CASE it.k = "one" ->
                    IF pos < Len(text) /\ InClass(it, text[pos + 1])
                    THEN MatchFrom(rest, text, pos + 1) ELSE -1
               [] it.k = "not" ->
                    IF pos < Len(text) /\ text[pos + 1] \notin it.s
                    THEN MatchFrom(rest, text, pos + 1) ELSE -1
               [] it.k = "lit" ->
                    IF LitAt(it, text, pos)
                    THEN MatchFrom(rest, text, pos + Len(it.s)) ELSE -1
               [] it.k = "b" ->
                    IF AtWordBoundary(text, pos)
                    THEN MatchFrom(rest, text, pos) ELSE -1
               [] it.k = "rep" ->
                    LET again == Rep(it.p, IF it.lo > 0 THEN it.lo - 1 ELSE 0,
                                     IF it.hi = -1 THEN -1 ELSE it.hi - 1)
                        more  == IF it.hi = 0 THEN -1
                                 ELSE MatchFrom(it.p \o <<again>> \o rest, text, pos)
                    IN  IF more # -1 THEN more
                        ELSE IF it.lo = 0 THEN MatchFrom(rest, text, pos)
                        ELSE -1
               [] it.k = "alt" -> FirstAlt(it.ps, rest, text, pos)

FirstAlt(ps, rest, text, pos) ==
    IF ps = <<>> THEN -1
    ELSE LET e == MatchFrom(Head(ps) \o rest, text, pos)
         IN  IF e # -1 THEN e ELSE FirstAlt(Tail(ps), rest, text, pos)

\* rx.finditer(text): the matches from left to right, each search starting
\* where the last match ended.  No pattern of the detector matches the
\* empty string.
RECURSIVE FindIter(_, _, _)
FindIter(pat, text, pos) ==
    IF pos > Len(text) THEN <<>>
    ELSE LET e == MatchFrom(pat, text, pos)
         IN  IF e = -1 \/ e = pos THEN FindIter(pat, text, pos + 1)
             ELSE <<[start |-> pos, end |-> e]>> \o FindIter(pat, text, e)

finditer(pat, text) == FindIter(pat, text, 0)

(***************************************************************************)
(* detector.py: the patterns and the word lists.                           *)
(***************************************************************************)
\* PHONE = \b(?:\+?1[-.\s]?)?\(?\d{3}\)?[-.\s]?\d{3}[-.\s]?\d{4}\b
PHONE ==
    <<WordBoundary, Rep(<<Rep(<<Lit(<<43>>)>>, 0, 1), Lit(<<49>>),
      Rep(<<One(Space \cup {45, 46})>>, 0, 1)>>, 0, 1), Rep(<<Lit(<<40>>)>>,
      0, 1), Rep(<<One(Digit)>>, 3, 3), Rep(<<Lit(<<41>>)>>, 0, 1),
      Rep(<<One(Space \cup {45, 46})>>, 0, 1), Rep(<<One(Digit)>>, 3, 3),
      Rep(<<One(Space \cup {45, 46})>>, 0, 1), Rep(<<One(Digit)>>, 4, 4),
      WordBoundary>>

\* EMAIL = \b[A-Z0-9._%+-]+@[A-Z0-9.-]+\.[A-Z]{2,}\b, re.I
EMAIL ==
    <<WordBoundary, Rep(<<OneI(Digit \cup Upper \cup {37, 43, 45, 46, 95})>>,
      1, -1), Lit(<<64>>), Rep(<<OneI(Digit \cup Upper \cup {45, 46})>>, 1,
      -1), Lit(<<46>>), Rep(<<OneI(Upper)>>, 2, -1), WordBoundary>>

\* ADDRESS = \b\d{1,5}\s+(?:[A-Za-z0-9.\-']+\s)+(?:St|Street|Ave|Avenue|Rd|Road|Blvd|Boulevard|Ln|Lane|Dr|Drive|Way)\b, re.I
ADDRESS ==
    <<WordBoundary, Rep(<<One(Digit)>>, 1, 5), Rep(<<One(Space)>>, 1, -1),
      Rep(<<Rep(<<OneI(Digit \cup Upper \cup LowerCase \cup {39, 45, 46})>>,
      1, -1), One(Space)>>, 1, -1), Alt(<<<<LitI(<<83, 116>>)>>, <<LitI(<<83,
      116, 114, 101, 101, 116>>)>>, <<LitI(<<65, 118, 101>>)>>, <<LitI(<<65,
      118, 101, 110, 117, 101>>)>>, <<LitI(<<82, 100>>)>>, <<LitI(<<82, 111,
      97, 100>>)>>, <<LitI(<<66, 108, 118, 100>>)>>, <<LitI(<<66, 111, 117,
      108, 101, 118, 97, 114, 100>>)>>, <<LitI(<<76, 110>>)>>, <<LitI(<<76,
      97, 110, 101>>)>>, <<LitI(<<68, 114>>)>>, <<LitI(<<68, 114, 105, 118,
      101>>)>>, <<LitI(<<87, 97, 121>>)>>>>), WordBoundary>>

\* SSN = \b\d{3}-\d{2}-\d{4}\b
SSN ==
    <<WordBoundary, Rep(<<One(Digit)>>, 3, 3), Lit(<<45>>),
      Rep(<<One(Digit)>>, 2, 2), Lit(<<45>>), Rep(<<One(Digit)>>, 4, 4),
      WordBoundary>>

\* CARD = \b(?:\d[ -]?){13,19}\b
CARD ==
    <<WordBoundary, Rep(<<One(Digit), Rep(<<One({32, 45})>>, 0, 1)>>, 13, 19),
      WordBoundary>>

\* POLICY = \b(?:DL|ID|POLICY|POL|INS|LIC)[ -]?[A-Z0-9]{2,}[- ]?[A-Z0-9]{2,}\b, re.I
POLICY ==
    <<WordBoundary, Alt(<<<<LitI(<<68, 76>>)>>, <<LitI(<<73, 68>>)>>,
      <<LitI(<<80, 79, 76, 73, 67, 89>>)>>, <<LitI(<<80, 79, 76>>)>>,
      <<LitI(<<73, 78, 83>>)>>, <<LitI(<<76, 73, 67>>)>>>>), Rep(<<One({32,
      45})>>, 0, 1), Rep(<<OneI(Digit \cup Upper)>>, 2, -1), Rep(<<One({32,
      45})>>, 0, 1), Rep(<<OneI(Digit \cup Upper)>>, 2, -1), WordBoundary>>

\* OTP6 = \b\d{6}\b
OTP6 ==
    <<WordBoundary, Rep(<<One(Digit)>>, 6, 6), WordBoundary>>

\* PIN4 = \b\d{4}\b
PIN4 ==
    <<WordBoundary, Rep(<<One(Digit)>>, 4, 4), WordBoundary>>

\* STRIPE = \bsk_(?:live|test)_[A-Za-z0-9]+\b
STRIPE ==
    <<WordBoundary, Lit(<<115, 107, 95>>), Alt(<<<<Lit(<<108, 105, 118,
      101>>)>>, <<Lit(<<116, 101, 115, 116>>)>>>>), Lit(<<95>>),
      Rep(<<One(Digit \cup Upper \cup LowerCase)>>, 1, -1), WordBoundary>>

\* SLACK = \bxox[aboprs]-[A-Za-z0-9-]+\b
SLACK ==
    <<WordBoundary, Lit(<<120, 111, 120>>), One({97, 98, 111, 112, 114, 115}),
      Lit(<<45>>), Rep(<<One(Digit \cup Upper \cup LowerCase \cup {45})>>, 1,
      -1), WordBoundary>>

\* SSH = \bAAAAB3Nza[^\s]{10,}\b
SSH ==
    <<WordBoundary, Lit(<<65, 65, 65, 65, 66, 51, 78, 122, 97>>),
      Rep(<<NotOne(Space)>>, 10, -1), WordBoundary>>

\* PASS_ASSIGN = \b(pass|password|passcode)\b\s*[:=]\s*(\S+), re.I
PASS_ASSIGN ==
    <<WordBoundary, Alt(<<<<LitI(<<112, 97, 115, 115>>)>>, <<LitI(<<112, 97,
      115, 115, 119, 111, 114, 100>>)>>, <<LitI(<<112, 97, 115, 115, 99, 111,
      100, 101>>)>>>>), WordBoundary, Rep(<<One(Space)>>, 0, -1), One({58,
      61}), Rep(<<One(Space)>>, 0, -1), Rep(<<NotOne(Space)>>, 1, -1)>>

\* QR = \bqr\b, re.I
QR ==
    <<WordBoundary, LitI(<<113, 114>>), WordBoundary>>

\* BARCODE = \bbarcode\b, re.I
BARCODE ==
    <<WordBoundary, LitI(<<98, 97, 114, 99, 111, 100, 101>>), WordBoundary>>

\* PLATE = \blicense plate\b, re.I
PLATE ==
    <<WordBoundary, LitI(<<108, 105, 99, 101, 110, 115, 101, 32, 112, 108, 97,
      116, 101>>), WordBoundary>>

\* VIN = \b[0-9A-HJ-NPR-Z]{17}\b
VIN ==
    <<WordBoundary, Rep(<<One(Digit \cup (65..72) \cup (74..78) \cup (82..90)
      \cup {80})>>, 17, 17), WordBoundary>>

\* TRACKING = \b1Z[0-9A-Z ]{12,}\b
TRACKING ==
    <<WordBoundary, Lit(<<49, 90>>), Rep(<<One(Digit \cup Upper \cup {32})>>,
      12, -1), WordBoundary>>

\* RESCODE = \b[A-Z0-9]{2,4}-[A-Z0-9]{2,4}\b
RESCODE ==
    <<WordBoundary, Rep(<<One(Digit \cup Upper)>>, 2, 4), Lit(<<45>>),
      Rep(<<One(Digit \cup Upper)>>, 2, 4), WordBoundary>>

\* SERIAL = \bSN[- ]?[A-Z0-9-]{4,}\b, re.I
SERIAL ==
    <<WordBoundary, LitI(<<83, 78>>), Rep(<<One({32, 45})>>, 0, 1),
      Rep(<<OneI(Digit \cup Upper \cup {45})>>, 4, -1), WordBoundary>>

\* TIME = \b(?:[01]?\d|2[0-3]):[0-5]\d\b|\b(?:\d{1,2})(?::\d{2})?\s?(?:am|pm)\b, re.I
TIME ==
    <<Alt(<<<<WordBoundary, Alt(<<<<Rep(<<One({48, 49})>>, 0, 1),
      One(Digit)>>, <<Lit(<<50>>), One(48..51)>>>>), Lit(<<58>>), One(48..53),
      One(Digit), WordBoundary>>, <<WordBoundary, Rep(<<One(Digit)>>, 1, 2),
      Rep(<<Lit(<<58>>), Rep(<<One(Digit)>>, 2, 2)>>, 0, 1),
      Rep(<<One(Space)>>, 0, 1), Alt(<<<<LitI(<<97, 109>>)>>, <<LitI(<<112,
      109>>)>>>>), WordBoundary>>>>)>>

\* ADDRESS_HINTS: " apt ", " suite ", " unit ", " street", " st.", " st ", "
\*   avenue", " ave", " blvd", " road", " rd", " lane", " ln", " drive", "
\*   dr", " way"
ADDRESS_HINTS ==
    <<<<32, 97, 112, 116, 32>>,
      <<32, 115, 117, 105, 116, 101, 32>>,
      <<32, 117, 110, 105, 116, 32>>,
      <<32, 115, 116, 114, 101, 101, 116>>,
      <<32, 115, 116, 46>>,
      <<32, 115, 116, 32>>,
      <<32, 97, 118, 101, 110, 117, 101>>,
      <<32, 97, 118, 101>>,
      <<32, 98, 108, 118, 100>>,
      <<32, 114, 111, 97, 100>>,
      <<32, 114, 100>>,
      <<32, 108, 97, 110, 101>>,
      <<32, 108, 110>>,
      <<32, 100, 114, 105, 118, 101>>,
      <<32, 100, 114>>,
      <<32, 119, 97, 121>>>>

\* CARD_KEYWORDS = "card", "visa", "mastercard", "amex", "credit", "debit",
\*   "number", "cvv"
CARD_KEYWORDS ==
    <<<<99, 97, 114, 100>>,
      <<118, 105, 115, 97>>,
      <<109, 97, 115, 116, 101, 114, 99, 97, 114, 100>>,
      <<97, 109, 101, 120>>,
      <<99, 114, 101, 100, 105, 116>>,
      <<100, 101, 98, 105, 116>>,
      <<110, 117, 109, 98, 101, 114>>,
      <<99, 118, 118>>>>

\* TOKEN_WORDS: "token", "password", "passcode", "pin", "otp", "secret",
\*   "webhook", "api key", "login", "passphrase"
TOKEN_WORDS ==
    <<<<116, 111, 107, 101, 110>>,
      <<112, 97, 115, 115, 119, 111, 114, 100>>,
      <<112, 97, 115, 115, 99, 111, 100, 101>>,
      <<112, 105, 110>>,
      <<111, 116, 112>>,
      <<115, 101, 99, 114, 101, 116>>,
      <<119, 101, 98, 104, 111, 111, 107>>,
      <<97, 112, 105, 32, 107, 101, 121>>,
      <<108, 111, 103, 105, 110>>,
      <<112, 97, 115, 115, 112, 104, 114, 97, 115, 101>>>>

\* TIME_WORDS: "am", "pm", "noon", "midnight", "tonight", "tomorrow",
\*   "today", "friday", "saturday", "sunday", "monday", "tuesday",
\*   "wednesday", "thursday", "next week", "this weekend", "tonite", "tmrw"
TIME_WORDS ==
    <<<<97, 109>>,
      <<112, 109>>,
      <<110, 111, 111, 110>>,
      <<109, 105, 100, 110, 105, 103, 104, 116>>,
      <<116, 111, 110, 105, 103, 104, 116>>,
      <<116, 111, 109, 111, 114, 114, 111, 119>>,
      <<116, 111, 100, 97, 121>>,
      <<102, 114, 105, 100, 97, 121>>,
      <<115, 97, 116, 117, 114, 100, 97, 121>>,
      <<115, 117, 110, 100, 97, 121>>,
      <<109, 111, 110, 100, 97, 121>>,
      <<116, 117, 101, 115, 100, 97, 121>>,
      <<119, 101, 100, 110, 101, 115, 100, 97, 121>>,
      <<116, 104, 117, 114, 115, 100, 97, 121>>,
      <<110, 101, 120, 116, 32, 119, 101, 101, 107>>,
      <<116, 104, 105, 115, 32, 119, 101, 101, 107, 101, 110, 100>>,
      <<116, 111, 110, 105, 116, 101>>,
      <<116, 109, 114, 119>>>>

\* HEALTH_WORDS: "ocd", "ptsd", "insulin", "covid", "ssri", "strep",
\*   "methadone", "migraine", "sober", "therapy", "therapist", "diagnosed",
\*   "depression", "anxiety", "hiv", "diabetes", "cancer", "aura", "clinic"
HEALTH_WORDS ==
    <<<<111, 99, 100>>,
      <<112, 116, 115, 100>>,
      <<105, 110, 115, 117, 108, 105, 110>>,
      <<99, 111, 118, 105, 100>>,
      <<115, 115, 114, 105>>,
      <<115, 116, 114, 101, 112>>,
      <<109, 101, 116, 104, 97, 100, 111, 110, 101>>,
      <<109, 105, 103, 114, 97, 105, 110, 101>>,
      <<115, 111, 98, 101, 114>>,
      <<116, 104, 101, 114, 97, 112, 121>>,
      <<116, 104, 101, 114, 97, 112, 105, 115, 116>>,
      <<100, 105, 97, 103, 110, 111, 115, 101, 100>>,
      <<100, 101, 112, 114, 101, 115, 115, 105, 111, 110>>,
      <<97, 110, 120, 105, 101, 116, 121>>,
      <<104, 105, 118>>,
      <<100, 105, 97, 98, 101, 116, 101, 115>>,
      <<99, 97, 110, 99, 101, 114>>,
      <<97, 117, 114, 97>>,
      <<99, 108, 105, 110, 105, 99>>>>

\* WORK_WORDS: "nda", "private repo", "confidential", "client", "launch
\*   date", "beta", "irb", "pilot", "pay bands", "internal", "anonymized
\*   transcripts", "dataset", "grades", "midterm", "study", "partner
\*   hospital", "api key", "staging", "do not share", "under embargo",
\*   "non-public"
WORK_WORDS ==
    <<<<110, 100, 97>>,
      <<112, 114, 105, 118, 97, 116, 101, 32, 114, 101, 112, 111>>,
      <<99, 111, 110, 102, 105, 100, 101, 110, 116, 105, 97, 108>>,
      <<99, 108, 105, 101, 110, 116>>,
      <<108, 97, 117, 110, 99, 104, 32, 100, 97, 116, 101>>,
      <<98, 101, 116, 97>>,
      <<105, 114, 98>>,
      <<112, 105, 108, 111, 116>>,
      <<112, 97, 121, 32, 98, 97, 110, 100, 115>>,
      <<105, 110, 116, 101, 114, 110, 97, 108>>,
      <<97, 110, 111, 110, 121, 109, 105, 122, 101, 100, 32, 116, 114, 97, 110, 115, 99, 114, 105, 112, 116, 115>>,
      <<100, 97, 116, 97, 115, 101, 116>>,
      <<103, 114, 97, 100, 101, 115>>,
      <<109, 105, 100, 116, 101, 114, 109>>,
      <<115, 116, 117, 100, 121>>,
      <<112, 97, 114, 116, 110, 101, 114, 32, 104, 111, 115, 112, 105, 116, 97, 108>>,
      <<97, 112, 105, 32, 107, 101, 121>>,
      <<115, 116, 97, 103, 105, 110, 103>>,
      <<100, 111, 32, 110, 111, 116, 32, 115, 104, 97, 114, 101>>,
      <<117, 110, 100, 101, 114, 32, 101, 109, 98, 97, 114, 103, 111>>,
      <<110, 111, 110, 45, 112, 117, 98, 108, 105, 99>>>>

\* MINOR_CUES: "my son", "my daughter", "my kid", "my toddler", "my niece",
\*   "my nephew", "kids\u2019", "kids'", "grade", "homeroom", "elementary",
\*   "middle", "high school", "preschool", "bus stop", "carpool", "room "
MINOR_CUES ==
    <<<<109, 121, 32, 115, 111, 110>>,
      <<109, 121, 32, 100, 97, 117, 103, 104, 116, 101, 114>>,
      <<109, 121, 32, 107, 105, 100>>,
      <<109, 121, 32, 116, 111, 100, 100, 108, 101, 114>>,
      <<109, 121, 32, 110, 105, 101, 99, 101>>,
      <<109, 121, 32, 110, 101, 112, 104, 101, 119>>,
      <<107, 105, 100, 115, 8217>>,
      <<107, 105, 100, 115, 39>>,
      <<103, 114, 97, 100, 101>>,
      <<104, 111, 109, 101, 114, 111, 111, 109>>,
      <<101, 108, 101, 109, 101, 110, 116, 97, 114, 121>>,
      <<109, 105, 100, 100, 108, 101>>,
      <<104, 105, 103, 104, 32, 115, 99, 104, 111, 111, 108>>,
      <<112, 114, 101, 115, 99, 104, 111, 111, 108>>,
      <<98, 117, 115, 32, 115, 116, 111, 112>>,
      <<99, 97, 114, 112, 111, 111, 108>>,
      <<114, 111, 111, 109, 32>>>>

\* ORG_KEYWORDS = "university", "clinic", "hospital", "school", "corp",
\*   "inc", "labs"
ORG_KEYWORDS ==
    <<<<117, 110, 105, 118, 101, 114, 115, 105, 116, 121>>,
      <<99, 108, 105, 110, 105, 99>>,
      <<104, 111, 115, 112, 105, 116, 97, 108>>,
      <<115, 99, 104, 111, 111, 108>>,
      <<99, 111, 114, 112>>,
      <<105, 110, 99>>,
      <<108, 97, 98, 115>>>>

(***************************************************************************)
(* detector.py: find_spans and Detector.analyze.                           *)
(***************************************************************************)
\* needle in text
Contains(text, needle) == Find(text, needle, 0) # -1

\* any(k in text for k in words)
AnyIn(words, text) == \E i \in DOMAIN words : Contains(text, words[i])

\* The loop of find_spans: low and nlow are the lowered text and needle, n
\* is len(needle).
RECURSIVE FindSpansFrom(_, _, _, _)
FindSpansFrom(low, nlow, n, start) ==
    LET i == Find(low, nlow, start)
    IN  IF i = -1 THEN <<>>
        ELSE <<[start |-> i, end |-> i + n]>> \o FindSpansFrom(low, nlow, n, i + n)

find_spans(text, needle) ==
    FindSpansFrom(Lower(text), Lower(needle), Len(needle), 0)

\* The span dict _add appends.
LabelledSpan(label, start, end, text) ==
    [start |-> start, end |-> end, text |-> text, label |-> label]

\* for m in rx.finditer(text): self._add(result, label, m.start(), m.end(), m.group())
RECURSIVE MatchSpans(_, _, _)
MatchSpans(label, ms, text) ==
    IF ms = <<>> THEN <<>>
    ELSE <<LabelledSpan(label, Head(ms).start, Head(ms).end,
                        Slice(text, Head(ms).start, Head(ms).end))>>
         \o MatchSpans(label, Tail(ms), text)

RegexSpans(label, rx, text) == MatchSpans(label, finditer(rx, text), text)

\* for w in words: for s, e, _ in find_spans(tlow, w): self._add(result, label, s, e, text[s:e])
RECURSIVE WordSpans(_, _, _)
WordSpans(label, words, text) ==
    IF words = <<>> THEN <<>>
    ELSE MatchSpans(label, find_spans(Lower(text), Head(words)), text)
         \o WordSpans(label, Tail(words), text)

\* Lines 135-139: an address hint counts from offset 10 on.
RECURSIVE FromOffset10(_)
FromOffset10(ms) ==
    IF ms = <<>> THEN <<>>
    ELSE IF Head(ms).start >= 10 THEN <<Head(ms)>> \o FromOffset10(Tail(ms))
    ELSE FromOffset10(Tail(ms))

RECURSIVE AddressHintSpans(_, _)
AddressHintSpans(hints, text) ==
    IF hints = <<>> THEN <<>>
    ELSE MatchSpans("Contact&IDs",
                    FromOffset10(find_spans(Lower(text), Head(hints))), text)
         \o AddressHintSpans(Tail(hints), text)

\* re.sub(r"\D", "", s): the digits of s.
RECURSIVE DigitsOf(_)
DigitsOf(s) ==
    IF s = <<>> THEN <<>>
    ELSE IF Head(s) \in Digit THEN <<Head(s)>> \o DigitsOf(Tail(s))
    ELSE DigitsOf(Tail(s))

\* Lines 145-150: a card-like digit run counts with a keyword within 16
\* characters and 13 to 19 digits.
CardGate(m, text) ==
    LET window == Lower(Slice(text, Max(0, m.start - 16), m.end + 16))
        digits == DigitsOf(Slice(text, m.start, m.end))
    IN  /\ AnyIn(CARD_KEYWORDS, window)
        /\ 13 <= Len(digits)
        /\ Len(digits) <= 19

RECURSIVE CardMatches(_, _)
CardMatches(ms, text) ==
    IF ms = <<>> THEN <<>>
    ELSE IF CardGate(Head(ms), text) THEN <<Head(ms)>> \o CardMatches(Tail(ms), text)
    ELSE CardMatches(Tail(ms), text)

\* The gate left open: the PIN and OTP rules run whatever the post says.
CredentialGateOpen(text) == Len(text) >= 0

\* Line 163: any(w in tlow for w in TOKEN_WORDS)
CredentialGate(text) == AnyIn(TOKEN_WORDS, Lower(text))

\* Lines 155-167.
CredentialSpans(text) ==
    RegexSpans("Credentials&Security", STRIPE, text)
    \o RegexSpans("Credentials&Security", SLACK, text)
    \o RegexSpans("Credentials&Security", SSH, text)
    \o RegexSpans("Credentials&Security", PASS_ASSIGN, text)
    \o (IF CredentialGate(text)
        THEN RegexSpans("Credentials&Security", PIN4, text)
             \o RegexSpans("Credentials&Security", OTP6, text)
        ELSE <<>>)

\* Lines 170-172.
RECURSIVE MetadataSpans(_, _)
MetadataSpans(rxs, text) ==
    IF rxs = <<>> THEN <<>>
    ELSE RegexSpans("Metadata/Device", Head(rxs), text)
         \o MetadataSpans(Tail(rxs), text)

\* Lines 199-206: the spans of one entity of doc.ents.
EntitySpans(ent, text) ==
    LET enttext == Slice(text, ent.start_char, ent.end_char)
    IN  (IF ent.label_ \in {"GPE", "LOC", "FAC"}
         THEN <<LabelledSpan("Location&Time", ent.start_char, ent.end_char, enttext)>>
         ELSE <<>>)
        \o (IF ent.label_ \in {"DATE", "TIME"}
            THEN <<LabelledSpan("Location&Time", ent.start_char, ent.end_char, enttext)>>
            ELSE <<>>)
        \o (IF ent.label_ = "ORG" /\ AnyIn(ORG_KEYWORDS, Lower(enttext))
            THEN <<LabelledSpan("Workplace/Academic", ent.start_char, ent.end_char, enttext)>>
            ELSE <<>>)

RECURSIVE SpacySpans(_, _)
SpacySpans(ents, text) ==
    IF ents = <<>> THEN <<>>
    ELSE EntitySpans(Head(ents), text) \o SpacySpans(Tail(ents), text)

\* Lines 125-206: the calls of _add in order.  nlp is [enabled, ents]:
\* whether the spaCy pipeline is loaded, and the doc.ents it gives for text.
ScanSpans(text, nlp) ==
    RegexSpans("Contact&IDs", PHONE, text)
    \o RegexSpans("Contact&IDs", EMAIL, text)
    \o RegexSpans("Contact&IDs", ADDRESS, text)
    \o AddressHintSpans(ADDRESS_HINTS, text)
    \o RegexSpans("Gov&Financial IDs", SSN, text)
    \o MatchSpans("Gov&Financial IDs", CardMatches(finditer(CARD, text), text), text)
    \o RegexSpans("Gov&Financial IDs", POLICY, text)
    \o CredentialSpans(text)
    \o MetadataSpans(<<QR, BARCODE, PLATE, VIN, TRACKING, RESCODE, SERIAL>>, text)
    \o RegexSpans("Location&Time", TIME, text)
    \o WordSpans("Location&Time", TIME_WORDS, text)
    \o WordSpans("Health&Sensitive", HEALTH_WORDS, text)
    \o WordSpans("Workplace/Academic", WORK_WORDS, text)
    \o WordSpans("Minors", MINOR_CUES, text)
    \o (IF nlp.enabled THEN SpacySpans(nlp.ents, text) ELSE <<>>)

\* _add: the label joins out["labels"], the span joins the list of its
\* label in out["spans"], a dict that keeps its keys in insertion order.
Add(out, span) ==
    [labels |-> out.labels \cup {span.label},
     spans  |-> IF \E i \in DOMAIN out.spans : out.spans[i].label = span.label
                THEN [i \in DOMAIN out.spans |->
                        IF out.spans[i].label = span.label
                        THEN [out.spans[i] EXCEPT !.list = Append(@, span)]
                        ELSE out.spans[i]]
                ELSE Append(out.spans, [label |-> span.label, list |-> <<span>>])]

RECURSIVE AddAll(_, _)
AddAll(out, spans) ==
    IF spans = <<>> THEN out ELSE AddAll(Add(out, Head(spans)), Tail(spans))

\* The labels of the detector in the order sorted() gives them.
SortedLabels ==
    <<"Contact&IDs", "Credentials&Security", "Gov&Financial IDs",
      "Health&Sensitive", "Location&Time", "Metadata/Device", "Minors",
      "Workplace/Academic">>

\* sorted(list(result["labels"]))
SortedList(labels) ==
    LET IsIn(l) == l \in labels
    IN  SelectSeq(SortedLabels, IsIn)

\* Lines 210-213: the lists of result["spans"] one after the other.
RECURSIVE Flatten(_)
Flatten(groups) ==
    IF groups = <<>> THEN <<>> ELSE Head(groups).list \o Flatten(Tail(groups))

\* Lines 208-214.
Finalize(result) ==
    [labels |-> SortedList(result.labels),
     spans |-> Flatten(result.spans),
     explanations |-> <<>>]

\* Detector.analyze
analyze(text, nlp) ==
    Finalize(AddAll([labels |-> {}, spans |-> <<>>], ScanSpans(text, nlp)))

(***************************************************************************)
(* predictors.py: the classifier call, with its cache and its retries, and *)
(* the three predict_* functions.                                          *)
(***************************************************************************)
\* Line 139: max_retries
MaxRetries == 6

\* Line 220: the cap on the hints of predict_hybrid
HintCap == 6

EmptyOut == [labels |-> <<>>, spans_text |-> <<>>, explanations |-> <<>>]

\* Lines 161-162: the substrings that make an error retryable.
RetryableMarks ==
    <<<<114, 97, 116, 101, 32, 108, 105, 109, 105, 116>>, <<52, 50, 57>>, <<116, 105, 109, 101, 111, 117, 116>>, <<53, 48, 50>>, <<53, 48, 51>>, <<53, 48, 52>>>>

\* Lines 161-162: msg = str(e).lower(); retryable = ("rate limit" in msg) or ...
Retryable(msg) == AnyIn(RetryableMarks, Lower(msg))

\* The test with the bound on the attempts left out.
GiveUpOnFatalOnly(attempt, retryable) == ~retryable /\ attempt >= 1

\* Line 163: attempt == max_retries or not retryable
GiveUp(attempt, retryable) == attempt = MaxRetries \/ ~retryable

\* Lines 109-124 and 128-131: the cache key is made of the model, of
\* max_tokens and of the two messages; the messages differ by the builder,
\* the post and the hints.
CacheKey(mode, text, hints) == [mode |-> mode, text |-> text, hints |-> hints]

\* Lines 149-157: the dict built from the classifier's JSON.  A field the
\* JSON lacks takes its default; explanations are a mapping from labels to
\* texts, the empty one being <<>>.
ParsedOut(parsed) ==
    [labels |-> IF "labels" \in DOMAIN parsed THEN parsed.labels ELSE <<>>,
     spans_text |-> IF "spans_text" \in DOMAIN parsed THEN parsed.spans_text
                    ELSE <<>>,
     explanations |-> IF "explanations" \in DOMAIN parsed
                         /\ DOMAIN parsed.explanations # {}
                      THEN parsed.explanations
                      ELSE <<>>]

\* Truth value of a label: the empty string is falsy.
Truthy(l) == l # ""

RECURSIVE WithoutNone(_)
\* [l for l in labels if l != "None"]
WithoutNone(labels) ==
    IF labels = <<>> THEN <<>>
    ELSE IF Head(labels) # "None"
         THEN <<Head(labels)>> \o WithoutNone(Tail(labels))
         ELSE WithoutNone(Tail(labels))

\* The labels of the classifier, as they come.
KeepSentinel(labels) == SubSeq(labels, 1, Len(labels))

\* Lines 204-205 and 226-227:
\* if any(l for l in labels if l != "None") and "None" in labels: ...
StripSentinel(labels) ==
    IF /\ \E i \in DOMAIN labels : labels[i] # "None" /\ Truthy(labels[i])
       /\ \E i \in DOMAIN labels : labels[i] = "None"
    THEN WithoutNone(labels)
    ELSE labels

\* Lines 202-207 and 224-229: the result made of what the classifier gave.
Assembled(text, out) ==
    [labels |-> StripSentinel(out.labels),
     spans |-> attach_offsets(text, out.spans_text),
     explanations |-> out.explanations]

\* predict_rules
predict_rules(text, nlp) ==
    LET out == analyze(text, nlp)
    IN  [labels |-> out.labels, spans |-> out.spans, explanations |-> <<>>]

RECURSIVE HintsFrom(_, _, _)
\* Lines 212-221: the loop over base["spans"].
HintsFrom(spans, seen, hints) ==
    IF spans = <<>> \/ Len(hints) >= HintCap THEN hints
    ELSE LET s == Head(spans)
             k == <<s.label, s.text>>
         IN  IF k \in seen THEN HintsFrom(Tail(spans), seen, hints)
             ELSE HintsFrom(Tail(spans), seen \cup {k},
                            Append(hints, [label |-> s.label, text |-> s.text]))

\* Lines 211-221: the hints predict_hybrid puts in its prompt.
HybridHints(text, nlp) == HintsFrom(analyze(text, nlp).spans, {}, <<>>)

\* Lines 200 and 222: the messages of the call, by backend.
PromptKey(mode, text, nlp) ==
    IF mode = "Hybrid (Rules + GPT)"
    THEN CacheKey(mode, text, HybridHints(text, nlp))
    ELSE CacheKey(mode, text, <<>>)

(***************************************************************************)
(* The reconciliation on its own: any bag of spans over a text.            *)
(***************************************************************************)
\* A text of n characters (reconciliation reads only its length).
BlankText(n) == [i \in 1..n |-> 120]

SpanRec(a, b, l) == [start |-> a, end |-> b, label |-> l]

\* The well-formed spans of a text of MaxTextLen characters, and a span of
\* each malformed kind: negative start, end past the text, empty, reversed.
WellFormedSpans ==
    {s \in [start : 0..MaxTextLen, end : 0..MaxTextLen, label : RLabels] :
        s.start < s.end}

MalformedSpans ==
    {SpanRec(-1, 1, "Contact&IDs"), SpanRec(MaxTextLen - 1, MaxTextLen + 1, "Contact&IDs"),
     SpanRec(1, 1, "Location&Time"), SpanRec(2, 1, "Location&Time")}

SpanPool == WellFormedSpans \cup MalformedSpans

ReconcileInit ==
    /\ rtext \in {BlankText(MaxTextLen - 1), BlankText(MaxTextLen)}
    /\ rpred \in SeqsUpTo(SpanPool, MaxSpans)
    /\ rspans = rpred
    /\ rout = <<>>
    /\ rout2 = <<>>
    /\ rpc = "input"
    /\ RelocateIdle
    /\ DetectorIdle
    /\ PredictIdle

\* render_block, line 65.
RenderFilter ==
    /\ rpc = "input"
    /\ rspans' = FilterBounds(rspans, rtext)
    /\ rpc' = "filtered"
    /\ UNCHANGED <<rtext, rpred, rout, rout2>>
    /\ UNCHANGED <<avars, dvars, pvars>>

\* render_block, line 66.
RenderReconcile ==
    /\ rpc = "filtered"
    /\ rout' = non_overlapping(rspans)
    /\ rpc' = "reconciled"
    /\ UNCHANGED <<rtext, rpred, rspans, rout2>>
    /\ UNCHANGED <<avars, dvars, pvars>>

\* _non_overlapping applied to its own result.
ReconcileAgain ==
    /\ rpc = "reconciled"
    /\ rout2' = non_overlapping(rout)
    /\ rpc' = "twice"
    /\ UNCHANGED <<rtext, rpred, rspans, rout>>
    /\ UNCHANGED <<avars, dvars, pvars>>

ReconcileNext == RenderFilter \/ RenderReconcile \/ ReconcileAgain

SpecReconcile == ReconcileInit /\ [][ReconcileNext]_vars

(***************************************************************************)
(* The relocation on its own: any text and any hints over I, i and U+0130. *)
(***************************************************************************)
RelocChars == {73, 105, 304}

RelocTexts == SeqsUpTo(RelocChars, MaxTextLen)

RelocHints == [text : SeqsUpTo(RelocChars, MaxFragLen), label : {"Minors"}]

NoHint == [text |-> <<>>, label |-> ""]

RelocateInit ==
    /\ atext \in RelocTexts
    /\ acursor = 0
    /\ aresults = <<>>
    /\ ahint = NoHint
    /\ aprev = [cursor |-> 0, results |-> <<>>]
    /\ acount = 0
    /\ atrail = <<>>
    /\ apc = "loop"
    /\ ReconcileIdle
    /\ DetectorIdle
    /\ PredictIdle

\* The loop state after the hint s.
AttachUpdate(s) ==
    LET st == AttachHint(atext, [cursor |-> acursor, results |-> aresults], s)
    IN  /\ acursor' = st.cursor
        /\ aresults' = st.results
        /\ ahint' = s
        /\ aprev' = [cursor |-> acursor, results |-> aresults]
        /\ acount' = acount + 1
        /\ atrail' = Append(atrail, [hint |-> s, cursor |-> acursor,
                                     by |-> LocatedBy(atext, s.text, acursor)])
        /\ UNCHANGED <<atext, apc>>
        /\ UNCHANGED <<rvars, dvars, pvars>>

\* Lines 175-177: a hint with no fragment text.
AttachSkipEmpty ==
    /\ apc = "loop"
    /\ acount < MaxHints
    /\ \E s \in RelocHints :
          /\ s.text = <<>>
          /\ AttachUpdate(s)

\* Lines 178-189: a hint one of the searches locates.
AttachEmit ==
    /\ apc = "loop"
    /\ acount < MaxHints
    /\ \E s \in RelocHints :
          /\ s.text # <<>>
          /\ Locate(atext, s.text, acursor) # -1
          /\ AttachUpdate(s)

\* Lines 185-186: a hint no search locates.
AttachDrop ==
    /\ apc = "loop"
    /\ acount < MaxHints
    /\ \E s \in RelocHints :
          /\ s.text # <<>>
          /\ Locate(atext, s.text, acursor) = -1
          /\ AttachUpdate(s)

\* Line 190: spans_text is exhausted.
AttachReturn ==
    /\ apc = "loop"
    /\ apc' = "returned"
    /\ UNCHANGED <<atext, acursor, aresults, ahint, aprev, acount, atrail>>
    /\ UNCHANGED <<rvars, dvars, pvars>>

RelocateNext == AttachSkipEmpty \/ AttachEmit \/ AttachDrop \/ AttachReturn

SpecRelocate == RelocateInit /\ [][RelocateNext]_vars

(***************************************************************************)
(* The scanner on its own: posts put together from a few pieces.           *)
(***************************************************************************)
\* "1234", "123456", " ", "PIN", "pass=", "noon"
Pieces ==
    {<<49, 50, 51, 52>>, <<49, 50, 51, 52, 53, 54>>, <<32>>, <<80, 73, 78>>,
     <<112, 97, 115, 115, 61>>, <<110, 111, 111, 110>>}

RECURSIVE Concat(_)
Concat(ps) == IF ps = <<>> THEN <<>> ELSE Head(ps) \o Concat(Tail(ps))

Posts == {Concat(ps) : ps \in SeqsUpTo(Pieces, MaxPieces)}

\* spaCy not loaded, or loaded and tagging the whole post as one entity.
NlpChoices(text) ==
    {[enabled |-> FALSE, ents |-> <<>>]}
    \cup {[enabled |-> TRUE,
           ents |-> <<[label_ |-> l, start_char |-> 0, end_char |-> Len(text)]>>] :
             l \in {"GPE", "ORG"}}

DetectorInit ==
    /\ dtext \in Posts
    /\ dnlp \in NlpChoices(dtext)
    /\ dresult = [labels |-> {}, spans |-> <<>>]
    /\ dout = [labels |-> <<>>, spans |-> <<>>, explanations |-> <<>>]
    /\ dpc = "call"
    /\ ReconcileIdle
    /\ RelocateIdle
    /\ PredictIdle

\* Detector.analyze, lines 125-206.
DetectorScan ==
    /\ dpc = "call"
    /\ dresult' = AddAll(dresult, ScanSpans(dtext, dnlp))
    /\ dpc' = "scanned"
    /\ UNCHANGED <<dtext, dnlp, dout>>
    /\ UNCHANGED <<rvars, avars, pvars>>

\* Detector.analyze, lines 208-214.
DetectorFinalize ==
    /\ dpc = "scanned"
    /\ dout' = Finalize(dresult)
    /\ dpc' = "returned"
    /\ UNCHANGED <<dtext, dnlp, dresult>>
    /\ UNCHANGED <<rvars, avars, pvars>>

DetectorNext == DetectorScan \/ DetectorFinalize

SpecDetector == DetectorInit /\ [][DetectorNext]_vars

(***************************************************************************)
(* The application: every change of a widget runs app.py from the top; a   *)
(* click on Analyze runs the backend of the sidebar on the post, and each  *)
(* run renders the last result.                                            *)
(***************************************************************************)
\* "PIN 1234"
PredictText == <<80, 73, 78, 32, 49, 50, 51, 52>>

\* The posts the user may type: "PIN 1234" and "OTP 1234".
PredictTexts == {PredictText, <<79, 84, 80, 32, 49, 50, 51, 52>>}

\* app.py, line 17
Backends == {"Hybrid (Rules + GPT)", "GPT Prompt-only", "Rules/NER only"}

ClassifierBackends == {"Hybrid (Rules + GPT)", "GPT Prompt-only"}

\* The label lists the classifier may answer with when it gives no
\* fragment.
ClassifierLabelLists ==
    {<<"None">>, <<"Location&Time", "None", "Credentials&Security">>}

\* The fragment the classifier may answer with: "pin".
ClassifierFragments ==
    <<[label |-> "Credentials&Security", text |-> <<112, 105, 110>>]>>

\* The explanations the classifier may answer with.
ClassifierExplanations == [l \in {"Credentials&Security"} |-> "shares a PIN"]

\* The JSON objects the classifier may answer with; the last has no labels
\* and no fragments.
ClassifierAnswers ==
    {[labels |-> l, spans_text |-> <<>>] : l \in ClassifierLabelLists}
    \cup {[labels |-> <<"Credentials&Security">>,
           spans_text |-> ClassifierFragments,
           explanations |-> ClassifierExplanations],
          [explanations |-> <<>>]}

\* "Rate limit reached", "Error code: 429", "Request timed out: Timeout",
\* "502 Bad Gateway", "Error code: 401"
ErrorMessages ==
    {<<82, 97, 116, 101, 32, 108, 105, 109, 105, 116, 32, 114, 101, 97, 99, 104, 101, 100>>,
     <<69, 114, 114, 111, 114, 32, 99, 111, 100, 101, 58, 32, 52, 50, 57>>,
     <<82, 101, 113, 117, 101, 115, 116, 32, 116, 105, 109, 101, 100, 32, 111, 117, 116, 58, 32, 84, 105, 109, 101, 111, 117, 116>>,
     <<53, 48, 50, 32, 66, 97, 100, 32, 71, 97, 116, 101, 119, 97, 121>>,
     <<69, 114, 114, 111, 114, 32, 99, 111, 100, 101, 58, 32, 52, 48, 49>>}

NoKey == CacheKey("", <<>>, <<>>)

\* det: spaCy not loaded, or loaded and tagging the "1234" of either post
\* as a GPE.
PredictNlp ==
    {[enabled |-> FALSE, ents |-> <<>>],
     [enabled |-> TRUE,
      ents |-> <<[label_ |-> "GPE", start_char |-> 4, end_char |-> 8]>>]}

\* predict_rules over the posts, one evaluation for each.
RulesResult ==
    [t \in PredictTexts |-> [n \in PredictNlp |-> predict_rules(t, n)]]

\* The cache keys of the classifier backends over the posts, one evaluation
\* for each.
PromptKeys ==
    [b \in ClassifierBackends |->
        [t \in PredictTexts |-> [n \in PredictNlp |-> PromptKey(b, t, n)]]]

EmptyResult == [labels |-> <<>>, spans |-> <<>>, explanations |-> <<>>]

Init ==
    /\ ptext = PredictText
    /\ plasttext = <<>>
    /\ pnlp \in PredictNlp
    /\ backend = "Hybrid (Rules + GPT)"
    /\ pcache = <<>>
    /\ pkey = NoKey
    /\ pattempt = 0
    /\ pvia = "none"
    /\ pout = EmptyOut
    /\ presult = EmptyResult
    /\ pview = <<>>
    /\ ppc = "idle"
    /\ ReconcileIdle
    /\ RelocateIdle
    /\ DetectorIdle

\* No click is being handled.
CanClick == ppc \in {"idle", "shown"}

\* app.py, lines 125-126: the last result, if any, is rendered over the
\* post it was made for.
Rendered(text, pred, view) ==
    IF ppc = "idle" THEN view ELSE RenderSpans(text, pred.spans)

\* The user picks another backend in the sidebar: app.py runs with
\* st.button False, lines 15-19 and 116-128.
SelectBackend(b) ==
    /\ CanClick
    /\ b # backend
    /\ backend' = b
    /\ pview' = Rendered(plasttext, presult, pview)
    /\ UNCHANGED <<ptext, plasttext, pnlp, pcache, pkey, pattempt, pvia, pout,
                   presult, ppc>>
    /\ UNCHANGED <<rvars, avars, dvars>>

\* The user edits the post: app.py runs with st.button False, lines 25 and
\* 116-128.
EditPost(t) ==
    /\ CanClick
    /\ t # ptext
    /\ ptext' = t
    /\ pview' = Rendered(plasttext, presult, pview)
    /\ UNCHANGED <<backend, plasttext, pnlp, pcache, pkey, pattempt, pvia,
                   pout, presult, ppc>>
    /\ UNCHANGED <<rvars, avars, dvars>>

\* Analyze with the rules backend: _predict_dispatch, line 40, and
\* predict_rules.
AnalyzeRules ==
    /\ CanClick
    /\ backend = "Rules/NER only"
    /\ presult' = RulesResult[ptext][pnlp]
    /\ pvia' = "none"
    /\ pout' = EmptyOut
    /\ pattempt' = 0
    /\ ppc' = "done"
    /\ UNCHANGED <<backend, ptext, plasttext, pnlp, pcache, pkey, pview>>
    /\ UNCHANGED <<rvars, avars, dvars>>

\* Analyze with a classifier backend: _predict_dispatch, lines 34-39, the
\* prompt of predict_prompt_only or predict_hybrid, and the cache lookup of
\* _generate_openai, lines 134-140.
AnalyzeClassifier ==
    /\ CanClick
    /\ backend \in ClassifierBackends
    /\ LET key == PromptKeys[backend][ptext][pnlp]
       IN  /\ pkey' = key
           /\ IF key \in DOMAIN pcache
              THEN /\ pout' = pcache[key]
                   /\ pvia' = "cache"
                   /\ pattempt' = 0
                   /\ ppc' = "assemble"
              ELSE /\ pout' = EmptyOut
                   /\ pvia' = "none"
                   /\ pattempt' = 1
                   /\ ppc' = "attempt"
    /\ UNCHANGED <<backend, ptext, plasttext, pnlp, pcache, presult, pview>>
    /\ UNCHANGED <<rvars, avars, dvars>>

\* The attempt succeeds: lines 141-159.
AttemptAnswers(parsed) ==
    /\ ppc = "attempt"
    /\ LET out == ParsedOut(parsed)
       IN  /\ pcache' = [k \in DOMAIN pcache \cup {pkey} |->
                            IF k = pkey THEN out ELSE pcache[k]]
           /\ pout' = out
    /\ pvia' = "ok"
    /\ ppc' = "assemble"
    /\ UNCHANGED <<backend, ptext, plasttext, pnlp, pkey, pattempt, presult,
                   pview>>
    /\ UNCHANGED <<rvars, avars, dvars>>

\* The attempt raises: lines 160-166.  After the last turn of the loop the
\* function would end with no return statement.
AttemptRaises(msg) ==
    /\ ppc = "attempt"
    /\ IF GiveUp(pattempt, Retryable(msg))
       THEN /\ pout' = EmptyOut
            /\ pvia' = "failed"
            /\ ppc' = "assemble"
            /\ UNCHANGED pattempt
       ELSE IF pattempt < MaxRetries
       THEN /\ pattempt' = pattempt + 1
            /\ UNCHANGED <<pout, pvia, ppc>>
       ELSE /\ pvia' = "nothing"
            /\ ppc' = "assemble"
            /\ UNCHANGED <<pout, pattempt>>
    /\ UNCHANGED <<backend, ptext, plasttext, pnlp, pcache, pkey, presult,
                   pview>>
    /\ UNCHANGED <<rvars, avars, dvars>>

\* predict_prompt_only, lines 202-207, and predict_hybrid, lines 224-229.
\* out.get on None raises AttributeError.
Assemble ==
    /\ ppc = "assemble"
    /\ IF pvia = "nothing"
       THEN /\ ppc' = "raised"
            /\ UNCHANGED presult
       ELSE /\ presult' = Assembled(ptext, pout)
            /\ ppc' = "done"
    /\ pkey' = NoKey
    /\ UNCHANGED <<backend, ptext, plasttext, pnlp, pcache, pattempt, pvia,
                   pout, pview>>
    /\ UNCHANGED <<rvars, avars, dvars>>

\* app.py, lines 119-126: the result is kept as last_pred with its post as
\* last_text, and rendered; the locals of the call are gone.
Show ==
    /\ ppc = "done"
    /\ plasttext' = ptext
    /\ pview' = RenderSpans(ptext, presult.spans)
    /\ pout' = EmptyOut
    /\ pattempt' = 0
    /\ pvia' = "none"
    /\ ppc' = "shown"
    /\ UNCHANGED <<backend, ptext, pnlp, pcache, pkey, presult>>
    /\ UNCHANGED <<rvars, avars, dvars>>

Next ==
    \/ \E b \in Backends : SelectBackend(b)
    \/ \E t \in PredictTexts : EditPost(t)
    \/ AnalyzeRules
    \/ AnalyzeClassifier
    \/ \E parsed \in ClassifierAnswers : AttemptAnswers(parsed)
    \/ \E msg \in ErrorMessages : AttemptRaises(msg)
    \/ Assemble
    \/ Show

Spec == Init /\ [][Next]_vars

(***************************************************************************)
(* Claims on the reconciliation.                                           *)
(***************************************************************************)
Reconciled == rpc \in {"reconciled", "twice"}

SpanLen(s) == s.end - s.start

\* The offsets a span covers.
Offsets(s) == s.start .. (s.end - 1)

\* C1: the spans render_block keeps after the bounds filter and
\* _non_overlapping are sorted ascending by start, each ends at or before
\* the next one starts, and no two of them share a character offset.
C1_NonOverlap ==
    Reconciled =>
        /\ \A i \in 1..(Len(rout) - 1) :
              /\ rout[i].start <= rout[i + 1].start
              /\ rout[i].end <= rout[i + 1].start
        /\ \A i, j \in DOMAIN rout :
              i # j => Offsets(rout[i]) \cap Offsets(rout[j]) = {}

\* A malformed span filtered out, and of the two overlapping spans left one
\* is kept.
C1_Witness ==
    /\ rpc = "reconciled"
    /\ Len(rpred) = 3
    /\ Len(rspans) = 2
    /\ \E i, j \in DOMAIN rspans :
          i # j /\ Offsets(rspans[i]) \cap Offsets(rspans[j]) # {}
    /\ Len(rout) = 1

\* C2: _non_overlapping applied to its own result on valid spans returns
\* that result, element for element and in the same order.
C2_Idempotent == rpc = "twice" => rout2 = rout

\* A second pass over a result of two spans, one input span discarded.
C2_Witness ==
    /\ rpc = "twice"
    /\ Len(rspans) = 3
    /\ Len(rout) = 2
    /\ Len(rout2) = 2

\* C3: of two valid input spans with the same start and different lengths
\* the shorter is never in the output, and when the input is exactly those
\* two spans the output is exactly the longer one.
C3_LongestAtTie ==
    Reconciled =>
        /\ \A i, j \in DOMAIN rspans :
              (rspans[i].start = rspans[j].start
                  /\ SpanLen(rspans[i]) < SpanLen(rspans[j]))
              => \A k \in DOMAIN rout :
                    ~(rout[k].start = rspans[i].start /\ rout[k].end = rspans[i].end)
        /\ (Len(rspans) = 2 /\ rspans[1].start = rspans[2].start
                /\ SpanLen(rspans[1]) # SpanLen(rspans[2]))
           => rout = <<IF SpanLen(rspans[1]) > SpanLen(rspans[2])
                       THEN rspans[1] ELSE rspans[2]>>

\* The shorter span comes first in the input and the longer one is kept.
C3_Witness ==
    /\ rpc = "reconciled"
    /\ Len(rspans) = 2
    /\ rspans[1].start = rspans[2].start
    /\ SpanLen(rspans[1]) < SpanLen(rspans[2])
    /\ rout = <<rspans[2]>>

\* The spans of rspans in the order p, a bijection on the indices.
Reordered(p) == [i \in DOMAIN rspans |-> rspans[p[i]]]

\* C11: _non_overlapping gives the same sequence, labels included, for
\* every ordering of the same valid spans, spans with the same start and
\* end and different labels among them.
C11_OrderIndependent ==
    Reconciled =>
        \A p \in Permutations(DOMAIN rspans) :
            non_overlapping(Reordered(p)) = rout

(***************************************************************************)
(* Claims on the relocation.                                               *)
(***************************************************************************)
\* The loop handled a hint and appended a span for it.
Emitted ==
    /\ acount > 0
    /\ Len(aresults) = Len(aprev.results) + 1
    /\ SubSeq(aresults, 1, Len(aprev.results)) = aprev.results

\* The loop handled a hint and appended nothing.
Dropped == acount > 0 /\ aresults = aprev.results

LastSpan == aresults[Len(aresults)]

\* frag occurs in text at offset p, character for character.
ExactAt(text, frag, p) ==
    /\ p + Len(frag) <= Len(text)
    /\ SubSeq(text, p + 1, p + Len(frag)) = frag

\* Some stretch of text starting at offset p equals frag when both are
\* lowercased.
CaseInsensitiveAt(text, frag, p) ==
    \E q \in p..Len(text) : Lower(Slice(text, p, q)) = Lower(frag)

MinOf(S) == CHOOSE i \in S : \A j \in S : i <= j

\* The offset the four searches of the specification give, or -1.
PriorityStart(text, frag, cursor) ==
    LET all       == 0..Len(text)
        exactFrom == {p \in all : p >= cursor /\ ExactAt(text, frag, p)}
        ciFrom    == {p \in all : p >= cursor /\ CaseInsensitiveAt(text, frag, p)}
        exactAny  == {p \in all : ExactAt(text, frag, p)}
        ciAny     == {p \in all : CaseInsensitiveAt(text, frag, p)}
    IN  IF exactFrom # {} THEN MinOf(exactFrom)
        ELSE IF ciFrom # {} THEN MinOf(ciFrom)
        ELSE IF exactAny # {} THEN MinOf(exactAny)
        ELSE IF ciAny # {} THEN MinOf(ciAny)
        ELSE -1

\* C4: every span _attach_offsets returns lies within the text, is not
\* empty, and carries exactly the source characters between its offsets.
C4_Grounding ==
    \A i \in DOMAIN aresults :
        /\ 0 <= aresults[i].start
        /\ aresults[i].start < aresults[i].end
        /\ aresults[i].end <= Len(atext)
        /\ aresults[i].text = SubSeq(atext, aresults[i].start + 1, aresults[i].end)

\* C5: the span of a located hint starts at the first exact occurrence at
\* or after the cursor, else at the first case-insensitive occurrence at or
\* after the cursor, else at the first exact occurrence anywhere, else at
\* the first case-insensitive occurrence anywhere.
C5_SearchPriority ==
    (acount > 0 /\ ahint.text # <<>>
        /\ PriorityStart(atext, ahint.text, aprev.cursor) # -1)
    => /\ Emitted
       /\ LastSpan.start = PriorityStart(atext, ahint.text, aprev.cursor)

\* C6: a span is emitted for a hint exactly when its fragment is not empty
\* and occurs in the text at least case-insensitively; a dropped hint
\* leaves the cursor and the spans emitted so far as they were.
C6_NoFabrication ==
    acount > 0 =>
        /\ Emitted <=> (ahint.text # <<>>
                        /\ \E p \in 0..Len(atext) :
                              CaseInsensitiveAt(atext, ahint.text, p))
        /\ Emitted \/ Dropped
        /\ Dropped => acursor = aprev.cursor

\* The hints handled so far that a search from the cursor or over the whole
\* text located.
LocatedTrail ==
    LET IsLocated(t) == t.by \in {"cursor", "anywhere"}
    IN  SelectSeq(atrail, IsLocated)

\* Every located hint was found by a search that starts at the cursor.
CursorBounded == \A i \in DOMAIN atrail : atrail[i].by # "anywhere"

\* The hints handled all carry the fragment frag.
SameFragment(frag) ==
    \A i \in DOMAIN atrail : atrail[i].hint.text = frag

\* The end offsets q of the case-insensitive occurrences of frag at p.
OccurrenceEnds(text, frag, p) ==
    {q \in p..Len(text) : q > p /\ Lower(Slice(text, p, q)) = Lower(frag)}

RECURSIVE HasOccurrences(_, _, _, _)
\* text holds k non-overlapping case-insensitive occurrences of frag from
\* offset from on.
HasOccurrences(text, frag, from, k) ==
    IF k = 0 THEN TRUE
    ELSE \E p \in from..Len(text) :
            \E q \in OccurrenceEnds(text, frag, p) :
                HasOccurrences(text, frag, q, k - 1)

\* C12: when every located hint is found by a search that starts at the
\* cursor, the spans come in hint order, each starting at or after the end
\* of the one before; and k hints with the same fragment, over a text with
\* k non-overlapping occurrences of it, get k spans at k different
\* occurrences of the fragment.
C12_CursorOrdering ==
    CursorBounded =>
        /\ Len(aresults) = Len(LocatedTrail)
        /\ \A i \in DOMAIN aresults :
              /\ aresults[i].label = LocatedTrail[i].hint.label
              /\ aresults[i].end - aresults[i].start
                    = Len(LocatedTrail[i].hint.text)
              /\ aresults[i].start >= LocatedTrail[i].cursor
        /\ \A i \in 1..(Len(aresults) - 1) :
              aresults[i + 1].start >= aresults[i].end
        /\ \A frag \in SeqsUpTo(RelocChars, MaxFragLen) :
              (frag # <<>> /\ atrail # <<>> /\ SameFragment(frag)
                  /\ HasOccurrences(atext, frag, 0, Len(atrail)))
              => /\ Len(aresults) = Len(atrail)
                 /\ \A i \in DOMAIN aresults :
                       CaseInsensitiveAt(atext, frag, aresults[i].start)
                 /\ \A i, j \in DOMAIN aresults :
                       i # j => aresults[i].start # aresults[j].start

\* C13: the cursor starts at 0 and is never lower after a hint than it was
\* before it.
C13_ForwardCursor ==
    /\ acount = 0 => acursor = 0
    /\ acount > 0 => acursor >= aprev.cursor

(***************************************************************************)
(* Claims about the scanner.                                               *)
(***************************************************************************)
DetectorReturned == dpc = "returned"

\* text[s:e] is a run of 4 or of 6 digits with no word character on
\* either side.
StandaloneCode(text, s, e) ==
    /\ 0 <= s /\ e <= Len(text)
    /\ e - s \in {4, 6}
    /\ \A i \in (s + 1)..e : text[i] \in Digit
    /\ (s = 0 \/ ~IsWordChar(text[s]))
    /\ (e = Len(text) \/ ~IsWordChar(text[e + 1]))

\* One of the credential trigger words occurs in the post, in any case.
HasTriggerWord(text) ==
    \E i \in DOMAIN TOKEN_WORDS : Contains(Lower(text), TOKEN_WORDS[i])

CodeSpans ==
    {i \in DOMAIN dout.spans :
        /\ dout.spans[i].label = "Credentials&Security"
        /\ StandaloneCode(dtext, dout.spans[i].start, dout.spans[i].end)}

\* C10: Detector.analyze returns a Credentials&Security span over a
\* standalone 4-digit or 6-digit token only if the post holds a credential
\* trigger word somewhere; a post with no trigger word gets no such span.
C10_CredentialGating ==
    DetectorReturned => (CodeSpans # {} => HasTriggerWord(dtext))

\* A post with a trigger word and a standalone 4-digit token, for which a
\* Credentials&Security span was returned.
C10_Witness ==
    /\ DetectorReturned
    /\ HasTriggerWord(dtext)
    /\ \E i \in CodeSpans : dout.spans[i].end - dout.spans[i].start = 4

(***************************************************************************)
(* Claims about the predictors.                                            *)
(***************************************************************************)
\* predict_* has returned presult.
Predicted == ppc = "done"

FromClassifier == backend \in ClassifierBackends

SpanLabels(spans) == {spans[i].label : i \in DOMAIN spans}

\* C7: the labels of every result of predict_rules, predict_prompt_only and
\* predict_hybrid are the sorted distinct labels of its spans.
C7_LabelConsistency ==
    Predicted => presult.labels = SortedList(SpanLabels(presult.spans))

\* C8: when every attempt of the classifier call fails, _generate_openai
\* makes at most six attempts and returns empty labels, fragments and
\* explanations; nothing is raised, and predict_* returns a result with no
\* labels and no spans.
C8_FailureNotFatal ==
    /\ ppc # "raised"
    /\ pattempt <= MaxRetries
    /\ (ppc = "assemble" /\ pvia = "failed") => pout = EmptyOut
    /\ (Predicted /\ pvia = "failed") =>
           presult.labels = <<>> /\ presult.spans = <<>>

\* Six attempts failed with a retryable error, and predict_* returned.
C8_Witness ==
    /\ Predicted
    /\ pvia = "failed"
    /\ pattempt = MaxRetries
    /\ presult = EmptyResult

IsSubsequence(short, long) ==
    \E keep \in SUBSET DOMAIN long :
        /\ Cardinality(keep) = Len(short)
        /\ \A i \in DOMAIN short :
              \E k \in keep :
                  /\ Cardinality({j \in keep : j <= k}) = i
                  /\ long[k] = short[i]

Categories(labels) == {labels[i] : i \in DOMAIN labels} \ {"None", ""}

HasSentinel(labels) == \E i \in DOMAIN labels : labels[i] = "None"

\* C9: in a result of predict_prompt_only or predict_hybrid "None" is never
\* among the labels together with a category; when the classifier answers
\* "None" and a category, "None" is removed and the other labels stay in
\* their order.
C9_SentinelStripped ==
    (Predicted /\ FromClassifier) =>
        /\ ~(HasSentinel(presult.labels) /\ Categories(presult.labels) # {})
        /\ (HasSentinel(pout.labels) /\ Categories(pout.labels) # {}) =>
              /\ IsSubsequence(presult.labels, pout.labels)
              /\ Len(presult.labels) = Len(pout.labels) - 1
              /\ ~HasSentinel(presult.labels)

\* The classifier answered two categories with "None" between them, and
\* the result has the two, in that order.
C9_Witness ==
    /\ Predicted
    /\ FromClassifier
    /\ pout.labels = <<"Location&Time", "None", "Credentials&Security">>
    /\ presult.labels = <<"Location&Time", "Credentials&Security">>

====
